---- MODULE Spec2Model ----
(***************************************************************************)
(* Model of src/components/modals/CreateProjectModal.tsx: the two zod      *)
(* schemas, the react-hook-form submission gate (handleSubmit), and the    *)
(* two async submit handlers onSubmitPersonal / onSubmitExternal with      *)
(* their awaited gateway calls (addProject, supabase.auth.getSession,      *)
(* supabase.from('external_references').insert).                           *)
(*                                                                         *)
(* Text is a sequence of one-character strings, so that split(","),        *)
(* trim() and the truthiness test of a token are computed on characters.   *)
(* An optional value (z.date().optional(), z.number().optional()) is a     *)
(* sequence of length 0 (undefined) or 1.                                  *)
(***************************************************************************)
EXTENDS Integers, Sequences, FiniteSets, TLC

(* ------------------------------ bounds -------------------------------- *)

\* longest externalLinks text explored exhaustively
MaxLen == 4

\* number of handleSubmit invocations explored in one behaviour
MaxSubmits == 2

(* ------------------------------- text --------------------------------- *)

Alphabet == {"a", "b", ",", " "}

Strings(n) == UNION {[1..k -> Alphabet] : k \in 0..n}

\* the characters String.prototype.trim removes (those the model can produce)
IsWs(c) == c \in {" ", "\n"}

SetMin(S) == CHOOSE x \in S : \A y \in S : x <= y

SetMax(S) == CHOOSE x \in S : \A y \in S : x >= y

\* a variant of trim() that leaves its argument alone
TrimNone(s) == s

\* String.prototype.trim: drop leading and trailing whitespace
Trim(s) ==
  LET keep == {i \in 1..Len(s) : ~IsWs(s[i])}
  IN IF keep = {} THEN <<>> ELSE SubSeq(s, SetMin(keep), SetMax(keep))

\* String.prototype.split(","): the pieces between commas, empty ones kept
RECURSIVE Split(_)
Split(s) ==
  LET commas == {i \in 1..Len(s) : s[i] = ","}
  IN IF commas = {} THEN <<s>>
     ELSE LET i == SetMin(commas)
          IN <<SubSeq(s, 1, i - 1)>> \o Split(SubSeq(s, i + 1, Len(s)))

\* values.externalLinks.split(",").map(link => link.trim())
SplitLinks(text) ==
  LET parts == Split(text)
  IN [i \in 1..Len(parts) |-> Trim(parts[i])]

\* decimal digits of a natural number, as template literals print it
RECURSIVE Digits(_)
Digits(n) ==
  LET d == <<"0", "1", "2", "3", "4", "5", "6", "7", "8", "9">>
  IN IF n < 10 THEN <<d[n + 1]>> ELSE Digits(n \div 10) \o <<d[(n % 10) + 1]>>

\* date-fns format(date, 'MMMM') for the month of the picked date
MonthName(m) ==
  CASE m = 1 -> <<"J","a","n","u","a","r","y">>
    [] m = 2 -> <<"F","e","b","r","u","a","r","y">>
    [] m = 3 -> <<"M","a","r","c","h">>
    [] m = 4 -> <<"A","p","r","i","l">>
    [] m = 5 -> <<"M","a","y">>
    [] m = 6 -> <<"J","u","n","e">>
    [] m = 7 -> <<"J","u","l","y">>
    [] m = 8 -> <<"A","u","g","u","s","t">>
    [] m = 9 -> <<"S","e","p","t","e","m","b","e","r">>
    [] m = 10 -> <<"O","c","t","o","b","e","r">>
    [] m = 11 -> <<"N","o","v","e","m","b","e","r">>
    [] m = 12 -> <<"D","e","c","e","m","b","e","r">>

NL == <<"\n">>

\* JavaScript truthiness of an optional number: undefined and 0 are falsy
TruthyNum(y) == y # <<>> /\ y[1] # 0

\* a date line that forgets the year when no month is picked
DateLineMonthOnly(v) ==
  IF v.month # <<>>
  THEN <<"D","a","t","e",":"," ">> \o MonthName(v.month[1])
       \o (IF TruthyNum(v.year) THEN <<" ">> \o Digits(v.year[1]) ELSE <<>>)
       \o NL
  ELSE <<>>

\* the date line shared by both handlers
DateLine(v) ==
  IF v.month # <<>>
  THEN <<"D","a","t","e",":"," ">> \o MonthName(v.month[1])
       \o (IF TruthyNum(v.year) THEN <<" ">> \o Digits(v.year[1]) ELSE <<>>)
       \o NL
  ELSE IF TruthyNum(v.year)
       THEN <<"Y","e","a","r",":"," ">> \o Digits(v.year[1]) \o NL
       ELSE <<>>

FieldLine(v) ==
  IF v.field # <<>> THEN <<"F","i","e","l","d",":"," ">> \o v.field \o NL ELSE <<>>

DurationLine(v) ==
  IF v.duration # <<>>
  THEN <<"D","u","r","a","t","i","o","n",":"," ">> \o v.duration \o NL
  ELSE <<>>

\* description built by onSubmitPersonal, before trim()
PersonalDescription(v) ==
  FieldLine(v) \o DateLine(v) \o DurationLine(v)
  \o (IF v.coAuthors # <<>>
      THEN <<"C","o","-","a","u","t","h","o","r","s",":"," ">> \o v.coAuthors \o NL
      ELSE <<>>)
  \o (IF v.externalLinks # <<>>
      THEN <<"E","x","t","e","r","n","a","l"," ","L","i","n","k","s",":"," ">>
           \o v.externalLinks \o NL
      ELSE <<>>)

\* description built by onSubmitExternal, before trim()
ExternalDescription(v) ==
  <<"E","x","t","e","r","n","a","l"," ","R","e","f","e","r","e","n","c","e">> \o NL
  \o FieldLine(v) \o DateLine(v) \o DurationLine(v)
  \o (IF v.authors # <<>>
      THEN <<"A","u","t","h","o","r","s",":"," ">> \o v.authors \o NL
      ELSE <<>>)

\* parseInt on the text of a number input: the leading decimal digits
RECURSIVE ParseDigits(_, _)
ParseDigits(t, acc) ==
  LET d == [c \in {"0", "1", "2", "3", "4", "5", "6", "7", "8", "9"} |->
              CASE c = "0" -> 0 [] c = "1" -> 1 [] c = "2" -> 2 [] c = "3" -> 3
                [] c = "4" -> 4 [] c = "5" -> 5 [] c = "6" -> 6 [] c = "7" -> 7
                [] c = "8" -> 8 [] c = "9" -> 9]
  IN IF t = <<>> \/ Head(t) \notin DOMAIN d THEN acc
     ELSE ParseDigits(Tail(t), 10 * acc + d[Head(t)])

ParseInt(t) == ParseDigits(t, 0)

\* a year input whose empty text becomes the number 0, as Number("") would
CoerceYearZero(t) == <<ParseInt(t)>>

\* the year input's onChange: e.target.value ? parseInt(e.target.value) : undefined
CoerceYear(t) == IF t # <<>> THEN <<ParseInt(t)>> ELSE <<>>

(* ------------------------------ schemas ------------------------------- *)

YearMin == 1900

YearMax == 2100

YearOk(y) == y = <<>> \/ (y[1] >= YearMin /\ y[1] <= YearMax)

\* a personal schema that does not require the field
PersonalErrorsFieldOptional(v) ==
  {f \in {"name", "year"} :
     \/ f = "name" /\ Len(v.name) < 1
     \/ f = "year" /\ ~YearOk(v.year)}

\* fields of personalProjectSchema that fail to parse
PersonalErrors(v) ==
  {f \in {"name", "field", "year"} :
     \/ f = "name" /\ Len(v.name) < 1
     \/ f = "field" /\ Len(v.field) < 1
     \/ f = "year" /\ ~YearOk(v.year)}

\* fields of externalReferenceSchema that fail to parse
ExternalErrors(v) ==
  {f \in {"name", "field", "year", "externalLinks"} :
     \/ f = "name" /\ Len(v.name) < 1
     \/ f = "field" /\ Len(v.field) < 1
     \/ f = "year" /\ ~YearOk(v.year)
     \/ f = "externalLinks" /\ Len(v.externalLinks) < 1}

PersonalDefaults ==
  [name |-> <<>>, month |-> <<>>, year |-> <<>>, duration |-> <<>>,
   field |-> <<>>, coAuthors |-> <<>>, externalLinks |-> <<>>]

ExternalDefaults ==
  [name |-> <<>>, month |-> <<>>, year |-> <<>>, duration |-> <<>>,
   field |-> <<>>, authors |-> <<>>, externalLinks |-> <<>>]

(* ------------------------------- inputs ------------------------------- *)

Users == {"u1"}

Names == {<<>>, <<"P">>}

Fields == {<<>>, <<"F">>}

\* what the user may have typed into the year input (type="number")
YearTexts == {<<>>, <<"0">>, <<"1", "8", "9", "9">>, <<"1", "9", "0", "0">>, <<"2", "1", "0", "0">>, <<"2", "1", "0", "1">>}

Years == {CoerceYear(t) : t \in YearTexts}

Months == {<<>>, <<3>>}

Durations == {<<>>, <<"2", "w">>}

People == {<<>>, <<"A">>, <<"A", " ">>}

PersonalLinkTexts == {<<>>, <<" ">>, <<"a", ",", "b">>}

ExternalFewLinkTexts == {<<>>, <<"a">>}

\* "a, , b," : a token, a blank token, a padded token and a trailing comma
ExampleLinks == <<"a", ",", " ", ",", " ", "b", ",">>

\* "a,b,a" : three candidate URLs, one of them twice
ThreeLinks == <<"a", ",", "b", ",", "a">>

\* {name: "Poster", field: "Print", year: 2022}
PosterExample ==
  [PersonalDefaults EXCEPT !.name = <<"P", "o", "s", "t", "e", "r">>, !.field = <<"P", "r", "i", "n", "t">>, !.year = <<2022>>]

\* {field: "Typography", month: March, year: 2023, duration: "2 weeks",
\*  authors: "A, B"} with a name and one link
TypographyExample ==
  [ExternalDefaults EXCEPT !.name = <<"T">>, !.field = <<"T", "y", "p", "o", "g", "r", "a", "p", "h", "y">>,
     !.month = <<3>>, !.year = <<2023>>, !.duration = <<"2", " ", "w", "e", "e", "k", "s">>,
     !.authors = <<"A", ",", " ", "B">>, !.externalLinks = <<"a">>]

PersonalSample == [PersonalDefaults EXCEPT !.name = <<"P">>, !.field = <<"F">>]

ExternalSample ==
  [ExternalDefaults EXCEPT !.name = <<"P">>, !.field = <<"F">>, !.externalLinks = <<"a">>]

\* what the user may have typed into the personal form
PersonalInputs ==
  [name : Names, month : Months, year : Years, duration : Durations,
   field : Fields, coAuthors : People, externalLinks : PersonalLinkTexts]
  \cup {PosterExample}

\* what the user may have typed into the external form: every link text up to
\* MaxLen and two longer ones with the other fields valid, and every combination
\* of the other fields
ExternalInputs ==
  {[ExternalSample EXCEPT !.externalLinks = s] :
     s \in Strings(MaxLen) \cup {ExampleLinks, ThreeLinks}}
  \cup [name : Names, month : Months, year : Years, duration : Durations,
        field : Fields, authors : People, externalLinks : ExternalFewLinkTexts]
  \cup {TypographyExample}

\* what the two forms may hold when the user has typed into both
PersonalBoth ==
  {[PersonalSample EXCEPT !.field = f, !.externalLinks = l] :
     f \in Fields, l \in PersonalLinkTexts}

ExternalBoth ==
  {[ExternalSample EXCEPT !.field = f, !.externalLinks = l] :
     f \in Fields, l \in Strings(2)}

(* ------------------------------- state -------------------------------- *)

VARIABLES
  open,                 \* useState(false): the dialog
  personalForm,         \* values held by personalForm (useForm)
  externalForm,         \* values held by externalForm (useForm)
  errors,               \* formState.errors of each form, as sets of field names
  session,              \* supabase auth session: <<>> or <<user id>>
  projects,             \* project store behind addProject
  external_references,  \* rows of the external_references table
  toasts,               \* notifications emitted through toast.*
  calls,                \* gateway calls issued, in order, with their results
  attempts,             \* handleSubmit invocations: variant, values, valid
  pc,                   \* where the running handler is suspended
  links,                \* onSubmitExternal: const links
  idx,                  \* onSubmitExternal: position of the for..of loop
  user                  \* onSubmitExternal: session.user.id once resolved

vars ==
  <<open, personalForm, externalForm, errors, session, projects,
    external_references, toasts, calls, attempts, pc, links, idx, user>>

sub == Len(attempts)

values == attempts[sub].values

Call(op, name, text, owner) ==
  [sub |-> sub, op |-> op, name |-> name, text |-> text, owner |-> owner,
   res |-> "pending"]

\* the awaited call (the last one issued) gets its result
Returned(res) == [calls EXCEPT ![Len(calls)].res = res]

\* getSession settles with a session: the call's result carries its user id
ReturnedSession(u) ==
  [calls EXCEPT ![Len(calls)].res = "ok", ![Len(calls)].owner = u]

Toast(kind, msg) == [sub |-> sub, kind |-> kind, msg |-> msg]

Init ==
  /\ open = FALSE
  /\ \/ personalForm \in PersonalInputs /\ externalForm = ExternalDefaults
     \/ personalForm = PersonalDefaults /\ externalForm \in ExternalInputs
     \/ personalForm \in PersonalBoth /\ externalForm \in ExternalBoth
  /\ errors = [personal |-> {}, external |-> {}]
  /\ session \in {<<>>} \cup {<<u>> : u \in Users}
  /\ projects = <<>>
  /\ external_references = <<>>
  /\ toasts = <<>>
  /\ calls = <<>>
  /\ attempts = <<>>
  /\ pc = "idle"
  /\ links = <<>>
  /\ idx = 0
  /\ user = <<>>

(* ----------------------------- environment ---------------------------- *)

\* DialogTrigger: onOpenChange(true)
OpenDialog ==
  /\ ~open /\ pc = "idle"
  /\ open' = TRUE
  /\ UNCHANGED <<personalForm, externalForm, errors, session, projects,
                 external_references, toasts, calls, attempts, pc, links, idx, user>>

\* the Cancel button: setOpen(false)
Cancel ==
  /\ open /\ pc = "idle"
  /\ open' = FALSE
  /\ UNCHANGED <<personalForm, externalForm, errors, session, projects,
                 external_references, toasts, calls, attempts, pc, links, idx, user>>

\* the auth session starts or ends outside the component
SignIn(u) ==
  /\ session = <<>>
  /\ session' = <<u>>
  /\ UNCHANGED <<open, personalForm, externalForm, errors, projects,
                 external_references, toasts, calls, attempts, pc, links, idx, user>>

SignOut ==
  /\ session # <<>>
  /\ session' = <<>>
  /\ UNCHANGED <<open, personalForm, externalForm, errors, projects,
                 external_references, toasts, calls, attempts, pc, links, idx, user>>

(* ------------------------------ personal ------------------------------ *)

\* personalForm.handleSubmit(onSubmitPersonal): the resolver runs first and the
\* handler only on valid values; the handler runs up to its await of addProject
SubmitPersonal ==
  /\ open /\ pc = "idle" /\ sub < MaxSubmits
  /\ LET v == personalForm
         e == PersonalErrors(v)
     IN /\ attempts' = Append(attempts, [variant |-> "personal", values |-> v, valid |-> e = {}])
        /\ errors' = [errors EXCEPT !.personal = e]
        /\ IF e = {}
           THEN /\ calls' = Append(calls,
                      [sub |-> sub + 1, op |-> "addProject", name |-> v.name,
                       text |-> Trim(PersonalDescription(v)), owner |-> <<>>,
                       res |-> "pending"])
                /\ pc' = "P_addProject"
           ELSE UNCHANGED <<calls, pc>>
  /\ UNCHANGED <<open, personalForm, externalForm, session, projects,
                 external_references, toasts, links, idx, user>>

\* onSubmitPersonal after addProject resolved, with a session lookup added
PersonalSuccessLooksUpSession ==
  /\ calls' = Append(Returned("ok"),
                     [Call("getSession", <<>>, <<>>, <<>>) EXCEPT !.res = "none"])
  /\ projects' = Append(projects,
       [name |-> calls[Len(calls)].name, description |-> calls[Len(calls)].text])
  /\ toasts' = Append(toasts, Toast("success", "Project created successfully!"))
  /\ open' = FALSE
  /\ personalForm' = PersonalDefaults
  /\ errors' = [errors EXCEPT !.personal = {}]

\* onSubmitPersonal after addProject resolved: toast.success, setOpen(false),
\* personalForm.reset()
PersonalSuccess ==
  /\ calls' = Returned("ok")
  /\ projects' = Append(projects,
       [name |-> calls[Len(calls)].name, description |-> calls[Len(calls)].text])
  /\ toasts' = Append(toasts, Toast("success", "Project created successfully!"))
  /\ open' = FALSE
  /\ personalForm' = PersonalDefaults
  /\ errors' = [errors EXCEPT !.personal = {}]

\* onSubmitPersonal with a catch block that calls addProject once more
PersonalAddProjectReturnsRetry ==
  /\ pc = "P_addProject"
  /\ \E ok \in BOOLEAN :
       IF ok
       THEN PersonalSuccess /\ pc' = "idle"
       ELSE /\ calls' = Append(Returned("error"),
                    Call("addProject", calls[Len(calls)].name, calls[Len(calls)].text, <<>>))
            /\ pc' = "P_addProject"
            /\ UNCHANGED <<toasts, projects, open, personalForm, errors>>
  /\ UNCHANGED <<externalForm, session, external_references, attempts, links, idx, user>>

\* addProject settles in onSubmitPersonal: the success path, or the catch block
PersonalAddProjectReturns ==
  /\ pc = "P_addProject"
  /\ \E ok \in BOOLEAN :
       IF ok
       THEN PersonalSuccess
       ELSE /\ calls' = Returned("error")
            /\ toasts' = Append(toasts, Toast("error", "Failed to create project"))
            /\ UNCHANGED <<projects, open, personalForm, errors>>
  /\ pc' = "idle"
  /\ UNCHANGED <<externalForm, session, external_references, attempts, links, idx, user>>

(* ------------------------------ external ------------------------------ *)

\* externalForm.handleSubmit(onSubmitExternal): as for the personal form; the
\* handler runs up to its await of addProject
SubmitExternal ==
  /\ open /\ pc = "idle" /\ sub < MaxSubmits
  /\ LET v == externalForm
         e == ExternalErrors(v)
     IN /\ attempts' = Append(attempts, [variant |-> "external", values |-> v, valid |-> e = {}])
        /\ errors' = [errors EXCEPT !.external = e]
        /\ IF e = {}
           THEN /\ calls' = Append(calls,
                      [sub |-> sub + 1, op |-> "addProject", name |-> v.name,
                       text |-> Trim(ExternalDescription(v)), owner |-> <<>>,
                       res |-> "pending"])
                /\ pc' = "E_addProject"
           ELSE UNCHANGED <<calls, pc>>
  /\ UNCHANGED <<open, personalForm, externalForm, session, projects,
                 external_references, toasts, links, idx, user>>

\* a catch block that lets the handler go on to the session lookup
ExternalCatchGoesOn ==
  /\ calls' = Append(Returned("error"), Call("getSession", <<>>, <<>>, <<>>))
  /\ pc' = "E_getSession"
  /\ UNCHANGED <<toasts, projects>>

\* the catch block of onSubmitExternal, entered when addProject rejects
ExternalCatch ==
  /\ calls' = Returned("error")
  /\ toasts' = Append(toasts, Toast("error", "Failed to create external reference"))
  /\ pc' = "idle"
  /\ UNCHANGED projects

\* addProject settles in onSubmitExternal: on success the handler goes on to
\* await supabase.auth.getSession(); a rejection lands in the catch block
ExternalAddProjectReturns ==
  /\ pc = "E_addProject"
  /\ \E ok \in BOOLEAN :
       IF ok
       THEN /\ projects' = Append(projects,
                 [name |-> calls[Len(calls)].name, description |-> calls[Len(calls)].text])
            /\ calls' = Append(Returned("ok"), Call("getSession", <<>>, <<>>, <<>>))
            /\ pc' = "E_getSession"
            /\ UNCHANGED toasts
       ELSE ExternalCatch
  /\ UNCHANGED <<open, personalForm, externalForm, errors, session,
                 external_references, attempts, links, idx, user>>

\* for (const url of links) { if (url) ... }: the first position from i on that
\* holds a non-empty token, or Len(ls) + 1 when the loop runs out
NextUrl(ls, i) ==
  LET rest == {j \in i..Len(ls) : ls[j] # <<>>}
  IN IF rest = {} THEN Len(ls) + 1 ELSE SetMin(rest)

\* where the loop goes on after the insert at position i: a loop that gives up
\* at the first error
AfterInsertBreak(ls, i, error) == IF error THEN Len(ls) + 1 ELSE i + 1

\* where the loop goes on after the insert at position i: the error branch only
\* logs and toasts, so the next token is taken either way
AfterInsert(ls, i, error) == i + 1

\* a loop that dispatches the inserts for all remaining tokens at once and
\* awaits only the last of them
RunLoopParallel(ls, i, u, cs, ts) ==
  LET rest == SelectSeq([j \in 1..Len(ls) |-> IF j >= i THEN ls[j] ELSE <<>>],
                        LAMBDA t : t # <<>>)
      all == [j \in 1..Len(rest) |-> Call("insert", values.name, rest[j], u)]
  IN IF rest # <<>>
     THEN /\ idx' = Len(ls)
          /\ calls' = cs \o all
          /\ toasts' = ts
          /\ pc' = "E_insert"
          /\ UNCHANGED <<open, externalForm, errors>>
     ELSE /\ idx' = Len(ls) + 1
          /\ calls' = cs
          /\ toasts' = Append(ts, Toast("success", "External reference created successfully!"))
          /\ pc' = "idle"
          /\ open' = FALSE
          /\ externalForm' = ExternalDefaults
          /\ errors' = [errors EXCEPT !.external = {}]

\* a loop that reads the auth session again for every insert
RunLoopRereads(ls, i, u, cs, ts) ==
  LET j == NextUrl(ls, i)
  IN /\ idx' = j
     /\ IF j <= Len(ls)
        THEN /\ calls' = Append(cs, Call("insert", values.name, ls[j], session))
             /\ toasts' = ts
             /\ pc' = "E_insert"
             /\ UNCHANGED <<open, externalForm, errors>>
        ELSE /\ calls' = cs
             /\ toasts' = Append(ts, Toast("success", "External reference created successfully!"))
             /\ pc' = "idle"
             /\ open' = FALSE
             /\ externalForm' = ExternalDefaults
             /\ errors' = [errors EXCEPT !.external = {}]

\* the loop of onSubmitExternal from position i on, with the calls and toasts so
\* far: either the next insert is issued and awaited, or the loop is over and the
\* handler ends with the success toast, setOpen(false) and externalForm.reset()
RunLoop(ls, i, u, cs, ts) ==
  LET j == NextUrl(ls, i)
  IN /\ idx' = j
     /\ IF j <= Len(ls)
        THEN /\ calls' = Append(cs, Call("insert", values.name, ls[j], u))
             /\ toasts' = ts
             /\ pc' = "E_insert"
             /\ UNCHANGED <<open, externalForm, errors>>
        ELSE /\ calls' = cs
             /\ toasts' = Append(ts, Toast("success", "External reference created successfully!"))
             /\ pc' = "idle"
             /\ open' = FALSE
             /\ externalForm' = ExternalDefaults
             /\ errors' = [errors EXCEPT !.external = {}]

\* a handler without the session check: the loop runs with no user id
NoSessionGoesOn ==
  /\ user' = <<>>
  /\ links' = SplitLinks(values.externalLinks)
  /\ RunLoop(SplitLinks(values.externalLinks), 1, <<>>, Returned("none"), toasts)
  /\ UNCHANGED projects

\* a handler that deletes the project again when there is no session
NoSessionRollsBack ==
  /\ calls' = Returned("none")
  /\ toasts' = Append(toasts, Toast("error", "You must be logged in to add external references"))
  /\ pc' = "idle"
  /\ projects' = SubSeq(projects, 1, Len(projects) - 1)
  /\ UNCHANGED <<open, externalForm, errors, links, idx, user>>

\* a handler that never comes back from the no-session branch
NoSessionHangs ==
  /\ calls' = Returned("none")
  /\ pc' = "E_getSession"
  /\ UNCHANGED <<toasts, open, externalForm, errors, projects, links, idx, user>>

\* a no-session branch that closes the dialog and resets the form
NoSessionResets ==
  /\ calls' = Returned("none")
  /\ toasts' = Append(toasts, Toast("error", "You must be logged in to add external references"))
  /\ pc' = "idle"
  /\ open' = FALSE
  /\ externalForm' = ExternalDefaults
  /\ errors' = [errors EXCEPT !.external = {}]
  /\ UNCHANGED <<projects, links, idx, user>>

\* if (!session): error toast and return, nothing else is touched
NoSession ==
  /\ calls' = Returned("none")
  /\ toasts' = Append(toasts, Toast("error", "You must be logged in to add external references"))
  /\ pc' = "idle"
  /\ UNCHANGED <<open, externalForm, errors, projects, links, idx, user>>

\* getSession settles: without a session the handler returns; with one it
\* splits the link text and enters the loop
GetSessionReturns ==
  /\ pc = "E_getSession"
  /\ IF session = <<>>
     THEN NoSession
     ELSE /\ user' = session
          /\ links' = SplitLinks(values.externalLinks)
          /\ RunLoop(SplitLinks(values.externalLinks), 1, session,
                     ReturnedSession(session), toasts)
          /\ UNCHANGED projects
  /\ UNCHANGED <<personalForm, session, external_references, attempts>>

\* the awaited insert settles: a row is stored, or { error } is returned, logged
\* and toasted; the loop goes on with the next token
InsertReturns ==
  /\ pc = "E_insert"
  /\ \E ok \in BOOLEAN :
       IF ok
       THEN /\ external_references' = Append(external_references,
                 [url |-> calls[Len(calls)].text,
                  project_name |-> calls[Len(calls)].name,
                  user_id |-> calls[Len(calls)].owner])
            /\ RunLoop(links, AfterInsert(links, idx, FALSE), user, Returned("ok"), toasts)
       ELSE /\ UNCHANGED external_references
            /\ RunLoop(links, AfterInsert(links, idx, TRUE), user, Returned("error"),
                       Append(toasts, Toast("error", "Failed to add external reference")))
  /\ UNCHANGED <<personalForm, session, projects, attempts, links, user>>

(* ---------------------------- specification --------------------------- *)

Next ==
  \/ OpenDialog
  \/ Cancel
  \/ \E u \in Users : SignIn(u)
  \/ SignOut
  \/ SubmitPersonal
  \/ PersonalAddProjectReturns
  \/ SubmitExternal
  \/ ExternalAddProjectReturns
  \/ GetSessionReturns
  \/ InsertReturns

Spec == Init /\ [][Next]_vars

\* a smaller set of starting forms for the specification with fairness: both
\* forms valid, the external form with no, one, two or three candidate URLs
LiveLinkTexts == {<<" ">>, <<"a">>, <<"a", ",", "b">>, ThreeLinks}

LiveInit ==
  /\ open = FALSE
  /\ personalForm \in {[PersonalSample EXCEPT !.externalLinks = l] : l \in PersonalLinkTexts}
  /\ externalForm \in {[ExternalSample EXCEPT !.externalLinks = l] : l \in LiveLinkTexts}
  /\ errors = [personal |-> {}, external |-> {}]
  /\ session \in {<<>>} \cup {<<u>> : u \in Users}
  /\ projects = <<>>
  /\ external_references = <<>>
  /\ toasts = <<>>
  /\ calls = <<>>
  /\ attempts = <<>>
  /\ pc = "idle"
  /\ links = <<>>
  /\ idx = 0
  /\ user = <<>>

\* every awaited gateway call eventually settles; the user and the auth session
\* are under no obligation
FairSpec ==
  /\ LiveInit
  /\ [][Next]_vars
  /\ WF_vars(PersonalAddProjectReturns)
  /\ WF_vars(ExternalAddProjectReturns)
  /\ WF_vars(GetSessionReturns)
  /\ WF_vars(InsertReturns)

TypeOK ==
  /\ open \in BOOLEAN
  /\ pc \in {"idle", "P_addProject", "E_addProject", "E_getSession", "E_insert"}
  /\ sub <= MaxSubmits

(* ------------------------- reading the history ------------------------ *)

\* submission k has run to its end (or was rejected by the resolver)
Done(k) == k < sub \/ pc = "idle"

\* the calls of submission k to one gateway operation, in the order issued
CallsOf(k, op) == SelectSeq(calls, LAMBDA c : c.sub = k /\ c.op = op)

AllCallsOf(k) == SelectSeq(calls, LAMBDA c : c.sub = k)

ToastsOf(k) == SelectSeq(toasts, LAMBDA t : t.sub = k)

Texts(cs) == [i \in 1..Len(cs) |-> cs[i].text]

Count(cs, op, res) == Cardinality({i \in 1..Len(cs) : cs[i].op = op /\ cs[i].res = res})

IsExternal(k) == attempts[k].variant = "external"

IsPersonal(k) == attempts[k].variant = "personal"

\* the session lookup of submission k found a session / found none
Resolved(k) == CallsOf(k, "getSession") # <<>> /\ CallsOf(k, "getSession")[1].res = "ok"

Unauthorized(k) == CallsOf(k, "getSession") # <<>> /\ CallsOf(k, "getSession")[1].res = "none"

ProjectFailed(k) == CallsOf(k, "addProject") # <<>> /\ CallsOf(k, "addProject")[1].res = "error"

\* the candidate URLs of a link text as the handler derives them
Candidates(text) == SelectSeq(SplitLinks(text), LAMBDA t : t # <<>>)

FailedUrls(k) == Texts(SelectSeq(CallsOf(k, "insert"), LAMBDA c : c.res = "error"))

MsgLoggedIn == "You must be logged in to add external references"

MsgLinkFailed == "Failed to add external reference"

\* the outcome a caller can read off the notifications of submission k: a success
\* notification reads as Created unless link failures were notified with it; no
\* notification carries a URL, so the failed URLs it can list are none
Outcome(k) ==
  LET ts == ToastsOf(k)
      has(kind, msgs) == \E i \in 1..Len(ts) : ts[i].kind = kind /\ ts[i].msg \in msgs
  IN IF has("success", {"Project created successfully!", "External reference created successfully!"})
     THEN IF has("error", {MsgLinkFailed})
          THEN [tag |-> "PartiallyCreated", failedUrls |-> <<>>]
          ELSE [tag |-> "Created", failedUrls |-> <<>>]
     ELSE IF has("error", {MsgLoggedIn})
          THEN [tag |-> "Unauthorized", failedUrls |-> <<>>]
          ELSE IF has("error", {"Failed to create project", "Failed to create external reference"})
               THEN [tag |-> "Failed", failedUrls |-> <<>>]
               ELSE [tag |-> "none", failedUrls |-> <<>>]

(* ------------------------------- claims ------------------------------- *)

\* C1: an External submission that resolved an identity and ran to its end
\* surfaces Created when no createLink call failed (also with no candidates), and
\* PartiallyCreated(failedUrls) when some call succeeded and some failed, where
\* failedUrls is exactly the sequence of URLs whose call failed.
C1_OutcomeNamesFailedUrls ==
  \A k \in 1..sub :
    (IsExternal(k) /\ Resolved(k) /\ Done(k)) =>
      LET ins == CallsOf(k, "insert")
          failed == FailedUrls(k)
      IN /\ failed = <<>> => Outcome(k) = [tag |-> "Created", failedUrls |-> <<>>]
         /\ (failed # <<>> /\ Len(failed) < Len(ins)) =>
              Outcome(k) = [tag |-> "PartiallyCreated", failedUrls |-> failed]

\* C2: an External submission whose externalLinks is empty or only whitespace is
\* rejected by validation and issues no gateway call; a Personal submission is
\* not rejected on account of such an externalLinks value.
C2_BlankLinksRejected ==
  \A k \in 1..sub :
    /\ (IsExternal(k) /\ Trim(attempts[k].values.externalLinks) = <<>>) =>
         (~attempts[k].valid /\ AllCallsOf(k) = <<>>)
    /\ (IsPersonal(k) /\ Trim(attempts[k].values.externalLinks) = <<>>) =>
         (attempts[k].valid <=>
            (attempts[k].values.name # <<>> /\ attempts[k].values.field # <<>>
             /\ YearOk(attempts[k].values.year)))

\* C3: an External submission that resolved an identity and ran to its end has
\* issued exactly one createLink call per candidate URL, in order, whatever calls
\* failed: a failure neither stops the loop nor causes a retry.
C3_OneCallPerCandidate ==
  \A k \in 1..sub :
    (IsExternal(k) /\ Resolved(k) /\ Done(k)) =>
      LET ins == CallsOf(k, "insert")
          cand == Candidates(attempts[k].values.externalLinks)
      IN /\ Len(ins) = Len(cand)
         /\ \A i \in 1..Len(ins) : ins[i].text = cand[i] /\ ins[i].res \in {"ok", "error"}

\* C3 witness: a finished submission with three candidates whose first call
\* failed and whose later calls were still issued
C3_Witness ==
  \E k \in 1..sub :
    /\ IsExternal(k) /\ Resolved(k) /\ Done(k)
    /\ Len(CallsOf(k, "insert")) = 3
    /\ CallsOf(k, "insert")[1].res = "error"
    /\ CallsOf(k, "insert")[2].res = "error"
    /\ CallsOf(k, "insert")[3].res = "ok"

\* C4: when the session lookup of an External submission finds no session, no
\* createLink call is issued for it, and the only notification is the
\* logged-in error: neither the project-failure message nor a success.
C4_NoSessionNoLinks ==
  \A k \in 1..sub :
    Unauthorized(k) =>
      /\ CallsOf(k, "insert") = <<>>
      /\ Done(k)
      /\ ToastsOf(k) = <<[sub |-> k, kind |-> "error", msg |-> MsgLoggedIn]>>
      /\ Outcome(k).tag = "Unauthorized"

\* C4 witness: no session was found for a submission with two candidate URLs
C4_Witness ==
  \E k \in 1..sub :
    Unauthorized(k) /\ Len(Candidates(attempts[k].values.externalLinks)) >= 2

\* C5: a session lookup or createLink call is only ever issued after the
\* createProject call of the same submission returned success; a submission
\* whose createProject failed ends Failed with that single call.
C5_ProjectFirst ==
  /\ \A i \in 1..Len(calls) :
       calls[i].op \in {"getSession", "insert"} =>
         \E j \in 1..(i - 1) :
           calls[j].sub = calls[i].sub /\ calls[j].op = "addProject" /\ calls[j].res = "ok"
  /\ \A k \in 1..sub :
       /\ Len(CallsOf(k, "addProject")) <= 1
       /\ (IsExternal(k) /\ ProjectFailed(k)) =>
            /\ Len(AllCallsOf(k)) = 1
            /\ Done(k)
            /\ Outcome(k).tag = "Failed"

\* C5 witness: an External submission with candidate URLs whose createProject failed
C5_Witness ==
  \E k \in 1..sub :
    /\ IsExternal(k) /\ ProjectFailed(k)
    /\ Candidates(attempts[k].values.externalLinks) # <<>>

\* C6: after an External submission ended for want of a session, the project
\* record it wrote is still in the project store (nothing is ever deleted from
\* it) and the link store holds no row written by that submission.
C6_UnauthorizedKeepsProject ==
  \A k \in 1..sub :
    Unauthorized(k) =>
      LET before == SelectSeq(calls, LAMBDA c : c.sub <= k)
          n == Count(before, "addProject", "ok")
      IN /\ Len(projects) = Count(calls, "addProject", "ok")
         /\ n >= 1
         /\ projects[n] = [name |-> attempts[k].values.name,
                           description |-> CallsOf(k, "addProject")[1].text]
         /\ Len(external_references) =
              Count(SelectSeq(calls, LAMBDA c : c.sub # k), "insert", "ok")

\* C6 witness: a submission ended without a session and its project is stored
C6_Witness ==
  \E k \in 1..sub : Unauthorized(k) /\ Done(k) /\ Len(projects) >= 1

\* C7: a Personal submission issues no call but createProject, whatever its
\* externalLinks and whatever the result; every row of the link store was
\* written by a createLink call, none of which belongs to a Personal submission.
C7_PersonalOnlyCreatesProject ==
  /\ \A i \in 1..Len(calls) :
       IsPersonal(calls[i].sub) => calls[i].op = "addProject"
  /\ Len(external_references) = Count(calls, "insert", "ok")

\* C7 witness: a Personal submission with link text "a,b" whose project was created
C7_Witness ==
  \E k \in 1..sub :
    /\ IsPersonal(k) /\ Done(k)
    /\ attempts[k].values.externalLinks = <<"a", ",", "b">>
    /\ CallsOf(k, "addProject") # <<>>
    /\ CallsOf(k, "addProject")[1].res = "ok"

\* C8: a submission of either variant whose name or field is empty is rejected
\* by validation, its handler never runs (no gateway call carries its number),
\* and both stores hold exactly what successful calls wrote.
C8_RequiredFields ==
  /\ \A k \in 1..sub :
       (attempts[k].values.name = <<>> \/ attempts[k].values.field = <<>>) =>
         /\ ~attempts[k].valid
         /\ AllCallsOf(k) = <<>>
         /\ ToastsOf(k) = <<>>
         /\ (k = sub =>
               /\ pc = "idle"
               /\ errors[attempts[k].variant] \cap {"name", "field"} # {})
  /\ Len(projects) = Count(calls, "addProject", "ok")
  /\ Len(external_references) = Count(calls, "insert", "ok")

\* C8 witness: both variants were submitted with a name but an empty field
C8_Witness ==
  /\ \E k \in 1..sub :
       IsPersonal(k) /\ attempts[k].values.name # <<>> /\ attempts[k].values.field = <<>>
  /\ \E k \in 1..sub :
       IsExternal(k) /\ attempts[k].values.name # <<>> /\ attempts[k].values.field = <<>>

\* C9: every submission that passed validation and ran to its end has emitted
\* exactly one notification, however many createLink calls failed.
C9_OneNotification ==
  \A k \in 1..sub :
    (attempts[k].valid /\ Done(k)) => Len(ToastsOf(k)) = 1

\* the reference reading of a link text, one character at a time: a comma ends
\* a token, blanks around a token are dropped, a token left empty is discarded
RECURSIVE StripLeft(_)
StripLeft(s) == IF s # <<>> /\ Head(s) = " " THEN StripLeft(Tail(s)) ELSE s

RECURSIVE StripRight(_)
StripRight(s) ==
  IF s # <<>> /\ s[Len(s)] = " " THEN StripRight(SubSeq(s, 1, Len(s) - 1)) ELSE s

Flush(acc, cur) ==
  LET t == StripRight(StripLeft(cur))
  IN IF t = <<>> THEN acc ELSE Append(acc, t)

RECURSIVE Scan(_, _, _, _)
Scan(s, i, cur, acc) ==
  IF i > Len(s) THEN Flush(acc, cur)
  ELSE IF s[i] = "," THEN Scan(s, i + 1, <<>>, Flush(acc, cur))
       ELSE Scan(s, i + 1, Append(cur, s[i]), acc)

RefCandidates(text) == Scan(text, 1, <<>>, <<>>)

\* C10: the URLs passed to createLink by an External submission that resolved an
\* identity and ran to its end are the comma-separated tokens of externalLinks,
\* trimmed, the empty ones discarded, in their order and with duplicates kept.
C10_UrlsAreTrimmedTokens ==
  \A k \in 1..sub :
    (IsExternal(k) /\ Resolved(k) /\ Done(k)) =>
      Texts(CallsOf(k, "insert")) = RefCandidates(attempts[k].values.externalLinks)

\* C10 witness: "a, , b," was submitted and exactly the URLs a and b were passed
C10_Witness ==
  \E k \in 1..sub :
    /\ IsExternal(k) /\ Resolved(k) /\ Done(k)
    /\ attempts[k].values.externalLinks = ExampleLinks
    /\ Texts(CallsOf(k, "insert")) = << <<"a">>, <<"b">> >>

(* ---------------------- the reference serializer ---------------------- *)

\* text as a list of lines: each present field contributes one line, in the
\* order tag, Field, Date/Year, Duration, Co-authors/Authors, External Links
RefDateLines(v) ==
  IF v.month # <<>> /\ v.year # <<>>
  THEN << <<"D","a","t","e",":"," ">> \o MonthName(v.month[1]) \o <<" ">> \o Digits(v.year[1]) >>
  ELSE IF v.month # <<>>
       THEN << <<"D","a","t","e",":"," ">> \o MonthName(v.month[1]) >>
       ELSE IF v.year # <<>>
            THEN << <<"Y","e","a","r",":"," ">> \o Digits(v.year[1]) >>
            ELSE <<>>

RefLines(variant, v) ==
  (IF variant = "external"
   THEN << <<"E","x","t","e","r","n","a","l"," ","R","e","f","e","r","e","n","c","e">> >>
   ELSE <<>>)
  \o (IF v.field # <<>> THEN << <<"F","i","e","l","d",":"," ">> \o v.field >> ELSE <<>>)
  \o RefDateLines(v)
  \o (IF v.duration # <<>>
      THEN << <<"D","u","r","a","t","i","o","n",":"," ">> \o v.duration >>
      ELSE <<>>)
  \o (IF variant = "personal"
      THEN (IF v.coAuthors # <<>>
            THEN << <<"C","o","-","a","u","t","h","o","r","s",":"," ">> \o v.coAuthors >>
            ELSE <<>>)
      ELSE (IF v.authors # <<>>
            THEN << <<"A","u","t","h","o","r","s",":"," ">> \o v.authors >>
            ELSE <<>>))
  \o (IF variant = "personal" /\ v.externalLinks # <<>>
      THEN << <<"E","x","t","e","r","n","a","l"," ","L","i","n","k","s",":"," ">>
              \o v.externalLinks >>
      ELSE <<>>)

RECURSIVE JoinLines(_)
JoinLines(ls) ==
  IF ls = <<>> THEN <<>>
  ELSE IF Len(ls) = 1 THEN ls[1]
       ELSE ls[1] \o <<"\n">> \o JoinLines(Tail(ls))

RECURSIVE DropTrailingWs(_)
DropTrailingWs(s) ==
  IF s # <<>> /\ s[Len(s)] \in {" ", "\n"}
  THEN DropTrailingWs(SubSeq(s, 1, Len(s) - 1))
  ELSE s

RefSerialize(variant, v) == DropTrailingWs(JoinLines(RefLines(variant, v)))

IsInfix(p, s) == \E i \in 0..(Len(s) - Len(p)) : SubSeq(s, i + 1, i + Len(p)) = p

\* C11: the description passed to createProject is the reference serialization
\* of the submitted values: the lines tag (External only), Field, Date/Year,
\* Duration, Co-authors/Authors, External Links (Personal only) in that order,
\* one per present field, trailing whitespace trimmed; an External description
\* has no External Links line.
C11_DescriptionIsReference ==
  \A i \in 1..Len(calls) :
    calls[i].op = "addProject" =>
      LET k == calls[i].sub
      IN /\ calls[i].text = RefSerialize(attempts[k].variant, attempts[k].values)
         /\ IsExternal(k) =>
              ~IsInfix(<<"E","x","t","e","r","n","a","l"," ","L","i","n","k","s">>,
                       calls[i].text)

\* C11 witness: the Typography example was submitted and its description is
\* "External Reference\nField: Typography\nDate: March 2023\nDuration: 2 weeks\nAuthors: A, B"
C11_Witness ==
  \E i \in 1..Len(calls) :
    /\ calls[i].op = "addProject"
    /\ attempts[calls[i].sub].values = TypographyExample
    /\ calls[i].text = <<"E", "x", "t", "e", "r", "n", "a", "l", " ", "R", "e", "f", "e", "r", "e", "n", "c", "e", "\n", "F", "i", "e", "l", "d", ":", " ", "T", "y", "p", "o", "g", "r", "a", "p", "h", "y", "\n", "D", "a", "t", "e", ":", " ", "M", "a", "r", "c", "h", " ", "2", "0", "2", "3", "\n", "D", "u", "r", "a", "t", "i", "o", "n", ":", " ", "2", " ", "w", "e", "e", "k", "s", "\n", "A", "u", "t", "h", "o", "r", "s", ":", " ", "A", ",", " ", "B">>

\* C12: a valid Personal submission issues exactly one gateway call, the
\* createProject call with the submitted name and the serialized description;
\* once it has returned, the submission is Created on success and Failed on
\* failure, with the one matching notification and no further call.
C12_PersonalOneCall ==
  \A k \in 1..sub :
    (IsPersonal(k) /\ attempts[k].valid) =>
      LET cs == AllCallsOf(k)
      IN /\ Len(cs) = 1
         /\ cs[1].op = "addProject"
         /\ cs[1].name = attempts[k].values.name
         /\ cs[1].text = RefSerialize("personal", attempts[k].values)
         /\ Done(k) =>
              \/ /\ cs[1].res = "ok"
                 /\ Outcome(k).tag = "Created"
                 /\ Len(ToastsOf(k)) = 1
              \/ /\ cs[1].res = "error"
                 /\ Outcome(k).tag = "Failed"
                 /\ Len(ToastsOf(k)) = 1

\* C12 witness: {name: "Poster", field: "Print", year: 2022} was submitted,
\* createProject("Poster", "Field: Print\nYear: 2022") succeeded, outcome Created
C12_Witness ==
  \E k \in 1..sub :
    /\ IsPersonal(k) /\ Done(k)
    /\ AllCallsOf(k) =
         << [sub |-> k, op |-> "addProject", name |-> <<"P", "o", "s", "t", "e", "r">>,
             text |-> <<"F", "i", "e", "l", "d", ":", " ", "P", "r", "i", "n", "t", "\n", "Y", "e", "a", "r", ":", " ", "2", "0", "2", "2">>, owner |-> <<>>, res |-> "ok"] >>
    /\ Outcome(k).tag = "Created"

\* the terminal outcomes of a variant
TerminalTags(variant) ==
  IF variant = "personal" THEN {"Created", "Failed"}
  ELSE {"Created", "PartiallyCreated", "Unauthorized", "Failed"}

Terminated(k) ==
  /\ k \in 1..sub
  /\ Done(k)
  /\ Outcome(k).tag \in TerminalTags(attempts[k].variant)

\* C13: if every gateway call eventually returns, a running handler (a submission
\* that passed validation) eventually ends with a terminal outcome of its
\* variant, and once a submission has ended, it has such an outcome and its
\* gateway calls and its notifications never change again.
C13_EverySubmissionEnds ==
  /\ (pc # "idle") ~> (pc = "idle" /\ Terminated(sub))
  /\ [][\A k \in 1..sub :
          (attempts[k].valid /\ Done(k)) =>
            /\ SelectSeq(calls', LAMBDA c : c.sub = k) = AllCallsOf(k)
            /\ SelectSeq(toasts', LAMBDA t : t.sub = k) = ToastsOf(k)
            /\ Outcome(k).tag \in TerminalTags(attempts[k].variant)]_vars

\* C13 witness: an External submission ended although each of its three
\* createLink calls failed
C13_Witness ==
  \E k \in 1..sub :
    /\ IsExternal(k) /\ Terminated(k)
    /\ Len(CallsOf(k, "insert")) = 3
    /\ \A i \in 1..3 : CallsOf(k, "insert")[i].res = "error"

\* the place of a gateway operation in a submission
Rank(op) == CASE op = "addProject" -> 1 [] op = "getSession" -> 2 [] op = "insert" -> 3

\* C14: at most one gateway call is in flight: every call but the last issued
\* has its result, a call is pending exactly while a handler is suspended, and
\* within a submission createProject comes before the session lookup, which
\* comes before the createLink calls, each issued after the previous one settled.
C14_OneCallInFlight ==
  /\ \A i \in 1..Len(calls) : (calls[i].res = "pending") => i = Len(calls)
  /\ (pc # "idle") <=> (calls # <<>> /\ calls[Len(calls)].res = "pending")
  /\ \A i, j \in 1..Len(calls) :
       i < j =>
         /\ calls[i].sub <= calls[j].sub
         /\ calls[i].sub = calls[j].sub =>
              /\ Rank(calls[i].op) <= Rank(calls[j].op)
              /\ Rank(calls[i].op) = Rank(calls[j].op) => calls[i].op = "insert"

\* C14 witness: the second createLink call of a submission is pending and the
\* first one has failed
C14_Witness ==
  /\ pc = "E_insert"
  /\ Len(CallsOf(sub, "insert")) = 2
  /\ CallsOf(sub, "insert")[1].res = "error"
  /\ CallsOf(sub, "insert")[2].res = "pending"

\* C15: every createLink call of an External submission carries the name
\* passed to that submission's createProject call and the user id that its one
\* session lookup returned, whatever happens to the session during the loop; the
\* rows stored are those of the successful calls.
C15_LinksShareNameAndOwner ==
  /\ \A i \in 1..Len(calls) :
       calls[i].op = "insert" =>
         LET k == calls[i].sub
         IN /\ IsExternal(k)
            /\ Len(CallsOf(k, "addProject")) = 1
            /\ Len(CallsOf(k, "getSession")) = 1
            /\ CallsOf(k, "getSession")[1].res = "ok"
            /\ CallsOf(k, "getSession")[1].owner # <<>>
            /\ calls[i].name = CallsOf(k, "addProject")[1].name
            /\ calls[i].name = attempts[k].values.name
            /\ calls[i].owner = CallsOf(k, "getSession")[1].owner
  /\ LET stored == SelectSeq(calls, LAMBDA c : c.op = "insert" /\ c.res = "ok")
     IN external_references =
          [i \in 1..Len(stored) |->
             [url |-> stored[i].text, project_name |-> stored[i].name,
              user_id |-> stored[i].owner]]

\* C15 witness: the session ended while the loop was running, and the createLink
\* call issued after that still carries the user id resolved before
C15_Witness ==
  /\ pc = "E_insert"
  /\ session = <<>>
  /\ Len(CallsOf(sub, "insert")) = 2
  /\ CallsOf(sub, "insert")[2].res = "pending"
  /\ CallsOf(sub, "insert")[2].owner = CallsOf(sub, "getSession")[1].owner
  /\ links[1] # <<>>
  /\ idx > 1

\* the other required fields of submission k are filled in
OthersFilled(k) ==
  /\ attempts[k].values.name # <<>>
  /\ attempts[k].values.field # <<>>
  /\ IsExternal(k) => attempts[k].values.externalLinks # <<>>

\* C16: no createProject call is issued for a year outside [1900, 2100]; a
\* submission with such a year is a validation error without any gateway call;
\* with the other required fields filled in, a year of exactly 1900 or 2100 is
\* accepted, and so is the value an empty year input is coerced to, which is
\* unset and not zero. This holds for both variants.
C16_YearInRange ==
  \A k \in 1..sub :
    LET y == attempts[k].values.year
    IN /\ AllCallsOf(k) # <<>> => (y = <<>> \/ (y[1] >= 1900 /\ y[1] <= 2100))
       /\ (y # <<>> /\ (y[1] < 1900 \/ y[1] > 2100)) =>
            /\ ~attempts[k].valid
            /\ AllCallsOf(k) = <<>>
            /\ "year" \in (IF IsPersonal(k) THEN PersonalErrors(attempts[k].values)
                            ELSE ExternalErrors(attempts[k].values))
       /\ (OthersFilled(k) /\ y \in {<<1900>>, <<2100>>, CoerceYear(<<>>)}) =>
            (attempts[k].valid /\ CallsOf(k, "addProject") # <<>>)

\* C16 witness: an External submission with year 2100 reached createProject
\* with "Year: 2100" in the description
C16_Witness ==
  \E k \in 1..sub :
    /\ IsExternal(k)
    /\ attempts[k].values.year = <<2100>>
    /\ CallsOf(k, "addProject") # <<>>
    /\ IsInfix(<<"Y","e","a","r",":"," ","2","1","0","0">>, CallsOf(k, "addProject")[1].text)

\* the notifications emitted by a step
NewToasts == SubSeq(toasts', Len(toasts) + 1, Len(toasts'))

Emits(kind, msgs) ==
  \E i \in 1..Len(NewToasts) : NewToasts[i].kind = kind /\ NewToasts[i].msg \in msgs

\* C17: a handler closes the dialog and resets a form only in the step that
\* emits its success notification, and then resets its own form alone; the step
\* that reports a failed createProject or a missing session leaves the dialog
\* open and both forms as they are.
C17_CloseAndResetOnlyOnSuccess ==
  [][/\ (pc # "idle" /\ open /\ ~open') =>
          Emits("success", {"Project created successfully!",
                            "External reference created successfully!"})
     /\ (personalForm' # personalForm) =>
          /\ Emits("success", {"Project created successfully!"})
          /\ personalForm' = PersonalDefaults
          /\ externalForm' = externalForm
     /\ (externalForm' # externalForm) =>
          /\ Emits("success", {"External reference created successfully!"})
          /\ externalForm' = ExternalDefaults
          /\ personalForm' = personalForm
     /\ Emits("success", {"Project created successfully!"}) =>
          (~open' /\ personalForm' = PersonalDefaults)
     /\ Emits("success", {"External reference created successfully!"}) =>
          (~open' /\ externalForm' = ExternalDefaults)
     /\ Emits("error", {"Failed to create project", "Failed to create external reference",
                        MsgLoggedIn}) =>
          /\ open /\ open'
          /\ personalForm' = personalForm
          /\ externalForm' = externalForm]_vars

\* C17 witness: an External submission ended for want of a session; the dialog
\* is open, the external form holds what was submitted and the personal form
\* holds what the user typed
C17_Witness ==
  /\ sub >= 1 /\ pc = "idle" /\ open
  /\ Unauthorized(sub)
  /\ externalForm = attempts[sub].values
  /\ personalForm # PersonalDefaults

\* the submissions so far were all valid External submissions that ended for
\* want of a session
AllUnauthorized ==
  /\ sub >= 1 /\ pc = "idle"
  /\ \A k \in 1..sub : IsExternal(k) /\ attempts[k].valid /\ Unauthorized(k)

\* C18: every createProject that succeeds adds one project record, whatever
\* records exist already; after k valid External submissions made without a
\* session there are exactly k project records, all of the same unchanged form,
\* and no link record.
C18_ResubmissionsPileUp ==
  /\ Len(projects) =
       Cardinality({i \in 1..Len(calls) : calls[i].op = "addProject" /\ calls[i].res = "ok"})
  /\ AllUnauthorized =>
       /\ Len(projects) = sub
       /\ external_references = <<>>
       /\ \A k \in 1..sub :
            /\ attempts[k].values = attempts[1].values
            /\ projects[k] = [name |-> attempts[1].values.name,
                              description |-> Trim(ExternalDescription(attempts[1].values))]

\* C18 witness: the same form was submitted twice without a session and two
\* equal project records exist
C18_Witness ==
  /\ AllUnauthorized
  /\ sub = 2
  /\ Len(projects) = 2
  /\ projects[1] = projects[2]

====
